---- MODULE Spec2Model ----
(***************************************************************************)
(* MiniFlow (src/miniflow.py): a dataflow graph of Node objects, the Kahn   *)
(* scheduler topological_sort, the drivers forward_pass and                 *)
(* forward_and_backward, and sgd_update.                                    *)
(*                                                                         *)
(* Python values: None is <<>>, the integer i is <<"int", i>>, the float    *)
(* 1/(1+exp(-x)) is the term <<"sigmoid", x>>.  A call's return value `ret` *)
(* is <<>> when the call raised and <<object>> otherwise.                   *)
(* Node objects are numbered 1..Len(kind) in order of construction.         *)
(***************************************************************************)
EXTENDS Integers, Sequences, FiniteSets, TLC

MaxNodes == 3    \* node objects constructed
MaxArity == 3    \* inputs passed to Add(*inputs) / Mul(*input)
MaxVal   == 1    \* fed values are 1..MaxVal
\* entries the work list `nodes` can hold before memory runs out: more than
\* any acyclic graph within the bounds needs
MaxWork  == MaxArity ^ MaxNodes

VARIABLES
    kind,            \* class of each node object
    inbound_nodes,   \* Node.inbound_nodes
    outbound_nodes,  \* Node.outbound_nodes
    value,           \* Node.value
    gradients,       \* Node.gradients
    pc,              \* "idle", or the loop topological_sort is in
    feed_dict,       \* topological_sort: feed_dict, kept until the next call starts
    input_nodes,     \* topological_sort: input_nodes
    G,               \* topological_sort: G
    nodes,           \* topological_sort: nodes (work list)
    L,               \* topological_sort: L
    S,               \* topological_sort: S
    graph,           \* caller: the list topological_sort returned for the nodes built so far
    lastOp,          \* the call that ended last
    args,            \* the node arguments of that call
    ret,             \* its return value
    fault,           \* the exception it raised, or "none"
    faultAt,         \* <<n, m>> when the Kahn loop raised while retiring n -> m
    calls            \* forward()/backward() invocations made by that call

vars == <<kind, inbound_nodes, outbound_nodes, value, gradients, pc, feed_dict,
          input_nodes, G, nodes, L, S, graph, lastOp, args, ret, fault, faultAt, calls>>

objs   == <<kind, inbound_nodes, outbound_nodes, value, gradients>>
locals == <<input_nodes, G, nodes, L, S>>

None == <<>>
Ids == 1..Len(kind)
InputIds == {n \in Ids : kind[n] = "Input"}

Range(s) == {s[i] : i \in 1..Len(s)}
Count(s, x) == Cardinality({i \in 1..Len(s) : s[i] = x})
Repeat(x, k) == [i \in 1..k |-> x]
Reverse(s) == [i \in 1..Len(s) |-> s[Len(s) + 1 - i]]

\* all sequences over `set` of length lo..hi
SeqsOf(set, lo, hi) == UNION {[1..k -> set] : k \in lo..hi}
\* the elements of a set of nodes, listed in order of construction
RECURSIVE Listed(_)
Listed(set) ==
    IF set = {} THEN <<>>
    ELSE LET least == CHOOSE n \in set : \A m \in set : n <= m
         IN <<least>> \o Listed(set \ {least})

Init ==
    /\ kind = <<>>
    /\ inbound_nodes = <<>>
    /\ outbound_nodes = <<>>
    /\ value = <<>>
    /\ gradients = <<>>
    /\ pc = "idle"
    /\ feed_dict = <<>>
    /\ input_nodes = <<>>
    /\ G = <<>>
    /\ nodes = <<>>
    /\ L = <<>>
    /\ S = {}
    /\ graph = <<>>
    /\ lastOp = "none"
    /\ args = <<>>
    /\ ret = <<>>
    /\ fault = "none"
    /\ faultAt = <<>>
    /\ calls = <<>>

\* what every call records about itself when it starts or ends
Ended(op, a, r, f, at, c) ==
    /\ lastOp' = op
    /\ args' = a
    /\ ret' = r
    /\ fault' = f
    /\ faultAt' = at
    /\ calls' = c

----------------------------------------------------------------------------
(* Node construction                                                        *)

\* lines 25-26 with the append skipped for the first inbound node
AppendSelfSkipFirst(out, inputs, self) ==
    [n \in DOMAIN out |->
        out[n] \o Repeat(self, Count(SubSeq(inputs, 2, Len(inputs)), n))]

\* lines 25-26: for n in self.inbound_nodes: n.outbound_nodes.append(self)
AppendSelf(out, inputs, self) ==
    [n \in DOMAIN out |-> out[n] \o Repeat(self, Count(inputs, n))]

\* Node.__init__(self, inbound_nodes) for a new object of class k
Node_init(k, inputs) ==
    LET self == Len(kind) + 1 IN
    /\ kind' = Append(kind, k)
    /\ inbound_nodes' = Append(inbound_nodes, inputs)
    /\ value' = Append(value, None)
    /\ outbound_nodes' = Append(AppendSelf(outbound_nodes, inputs, self), <<>>)
    /\ gradients' = Append(gradients, <<>>)
    /\ feed_dict' = <<>>
    /\ graph' = <<>>
    /\ Ended(k, inputs, <<self>>, "none", <<>>, <<>>)
    /\ UNCHANGED <<pc, locals>>

\* x = Input()
Input_init ==
    /\ pc = "idle"
    /\ Len(kind) < MaxNodes
    /\ Node_init("Input", <<>>)

\* f = Add(*inputs)
Add_init ==
    /\ pc = "idle"
    /\ Len(kind) < MaxNodes
    /\ \E inputs \in SeqsOf(Ids, 1, MaxArity) : Node_init("Add", inputs)

\* m = Mul(*input), whatever the nodes passed: line 75 names `inputs`, which is
\* not defined, so Node.__init__ is never reached
Mul_init ==
    /\ pc = "idle"
    /\ SeqsOf(Ids, 1, MaxArity) # {}
    /\ Ended("Mul", <<>>, <<>>, "NameError", <<>>, <<>>)
    /\ feed_dict' = <<>>
    /\ UNCHANGED <<objs, pc, locals, graph>>

\* s = Sigmoid(node)
Sigmoid_init ==
    /\ pc = "idle"
    /\ Len(kind) < MaxNodes
    /\ \E node \in Ids : Node_init("Sigmoid", <<node>>)

----------------------------------------------------------------------------
(* topological_sort(feed_dict)                                              *)

Int_(i) == <<"int", i>>
FedValues == {Int_(i) : i \in 1..MaxVal}
NoEdges == [in |-> {}, out |-> {}]

ResetLocals ==
    /\ input_nodes' = <<>>
    /\ G' = <<>>
    /\ nodes' = <<>>
    /\ L' = <<>>
    /\ S' = {}

\* lines 179-182: the call, up to the first test of the discovery loop; the
\* caller fills feed_dict in the order the Input nodes were constructed
TopologicalSort ==
    /\ pc = "idle"
    /\ \E keys \in SUBSET InputIds :
       \E fd \in [keys -> FedValues] :
          /\ feed_dict' = fd
          /\ input_nodes' = Listed(keys)
          /\ nodes' = Listed(keys)
    /\ G' = <<>>
    /\ L' = <<>>
    /\ S' = {}
    /\ pc' = "discover"
    /\ graph' = <<>>
    /\ Ended("topological_sort", <<>>, <<>>, "none", <<>>, <<>>)
    /\ UNCHANGED objs

\* lines 185-186 / 188-189: if n not in G: G[n] = {'in': set(), 'out': set()}
Touch(g, n) == IF n \in DOMAIN g THEN g ELSE g @@ (n :> NoEdges)

\* lines 187-191 for the entries ms[i..] of n.outbound_nodes
RECURSIVE DiscoverEdges(_, _, _, _)
DiscoverEdges(g, n, ms, i) ==
    IF i > Len(ms) THEN g
    ELSE LET m  == ms[i]
             g1 == Touch(g, m)
             g2 == [g1 EXCEPT ![n].out = @ \cup {m}]
             g3 == [g2 EXCEPT ![m].in = @ \cup {n}]
         IN DiscoverEdges(g3, n, ms, i + 1)

\* lines 184, 192 with a visited test: only nodes not yet in G are appended
EnqueueUnvisited(g, work, n) ==
    Tail(work) \o SelectSeq(outbound_nodes[n], LAMBDA m : m \notin DOMAIN g /\ m # n)

\* lines 184, 192: nodes.pop(0), then nodes.append(m) for every m in n.outbound_nodes
Enqueue(g, work, n) == Tail(work) \o outbound_nodes[n]

\* lines 183-192: one iteration of the discovery loop
DiscoverStep ==
    /\ pc = "discover"
    /\ nodes # <<>>
    /\ LET n    == Head(nodes)
           work == Enqueue(G, nodes, n)
       IN IF Len(work) > MaxWork
          THEN \* the work list has outgrown memory
               /\ pc' = "idle"
               /\ ResetLocals
               /\ Ended("topological_sort", <<>>, <<>>, "MemoryError", <<>>, <<>>)
          ELSE /\ G' = DiscoverEdges(Touch(G, n), n, outbound_nodes[n], 1)
               /\ nodes' = work
               /\ UNCHANGED <<pc, input_nodes, L, S, lastOp, args, ret, fault, faultAt, calls>>
    /\ UNCHANGED <<objs, feed_dict, graph>>

\* lines 183, 194-195: the discovery loop ends; L = [], S = set(input_nodes)
KahnStart ==
    /\ pc = "discover"
    /\ nodes = <<>>
    /\ L' = <<>>
    /\ S' = Range(input_nodes)
    /\ pc' = "kahn"
    /\ UNCHANGED <<objs, feed_dict, input_nodes, G, nodes, graph,
                   lastOp, args, ret, fault, faultAt, calls>>

\* lines 203-208 with set.discard in place of set.remove: a missing element is
\* passed over
RECURSIVE RetireDiscard(_, _, _, _, _)
RetireDiscard(g, s, n, ms, i) ==
    IF i > Len(ms) THEN [G |-> g, S |-> s, fault |-> "none", at |-> <<>>]
    ELSE LET m  == ms[i]
             g1 == [g EXCEPT ![n].out = @ \ {m}]
             g2 == [g1 EXCEPT ![m].in = @ \ {n}]
             s1 == IF g2[m].in = {} THEN s \cup {m} ELSE s
         IN RetireDiscard(g2, s1, n, ms, i + 1)

\* lines 203-208 for the entries ms[i..] of n.outbound_nodes; set.remove raises
\* KeyError when the element is not in the set
RECURSIVE Retire(_, _, _, _, _)
Retire(g, s, n, ms, i) ==
    IF i > Len(ms) THEN [G |-> g, S |-> s, fault |-> "none", at |-> <<>>]
    ELSE LET m == ms[i] IN
         IF m \notin g[n].out \/ n \notin g[m].in
         THEN [G |-> g, S |-> s, fault |-> "KeyError", at |-> <<n, m>>]
         ELSE LET g1 == [g EXCEPT ![n].out = @ \ {m}]
                  g2 == [g1 EXCEPT ![m].in = @ \ {n}]
                  s1 == IF g2[m].in = {} THEN s \cup {m} ELSE s
              IN Retire(g2, s1, n, ms, i + 1)

\* lines 199-200: if isinstance(n, Input): n.value = feed_dict[n]
Feed(val, n) ==
    IF kind[n] = "Input" /\ n \in DOMAIN feed_dict
    THEN [val EXCEPT ![n] = feed_dict[n]]
    ELSE val

\* lines 196-208: one iteration of the Kahn loop; S.pop() removes an arbitrary element
KahnStep ==
    /\ pc = "kahn"
    /\ S # {}
    /\ \E n \in S :
          IF kind[n] = "Input" /\ n \notin DOMAIN feed_dict
          THEN /\ pc' = "idle"
               /\ ResetLocals
               /\ value' = value
               /\ Ended("topological_sort", <<>>, <<>>, "KeyError", <<>>, <<>>)
          ELSE LET r == Retire(G, S \ {n}, n, outbound_nodes[n], 1) IN
               /\ value' = Feed(value, n)
               /\ IF r.fault = "none"
                  THEN /\ L' = Append(L, n)
                       /\ G' = r.G
                       /\ S' = r.S
                       /\ UNCHANGED <<pc, input_nodes, nodes,
                                      lastOp, args, ret, fault, faultAt, calls>>
                  ELSE /\ pc' = "idle"
                       /\ ResetLocals
                       /\ Ended("topological_sort", <<>>, <<>>, r.fault, r.at, <<>>)
    /\ UNCHANGED <<kind, inbound_nodes, outbound_nodes, gradients, feed_dict, graph>>

\* lines 196, 209: the Kahn loop ends; return L (the caller binds it: graph = ...)
Return ==
    /\ pc = "kahn"
    /\ S = {}
    /\ graph' = L
    /\ pc' = "idle"
    /\ ResetLocals
    /\ Ended("topological_sort", <<>>, <<L>>, "none", <<>>, <<>>)
    /\ UNCHANGED <<objs, feed_dict>>

----------------------------------------------------------------------------
(* forward() and backward() of each class                                   *)

RECURSIVE SumInts(_, _)
SumInts(vals, i) == IF i > Len(vals) THEN 0 ELSE vals[i][2] + SumInts(vals, i + 1)

\* line 70: sum([n.value for n in self.inbound_nodes]); 0 + None raises TypeError
Add_forward(val, n) ==
    LET vals == [i \in 1..Len(inbound_nodes[n]) |-> val[inbound_nodes[n][i]]] IN
    IF \E i \in 1..Len(vals) : vals[i] = None
    THEN [fault |-> "TypeError", value |-> val]
    ELSE IF \A i \in 1..Len(vals) : vals[i][1] = "int"
    THEN [fault |-> "none", value |-> [val EXCEPT ![n] = Int_(SumInts(vals, 1))]]
    ELSE [fault |-> "none", value |-> [val EXCEPT ![n] = <<"sum", vals>>]]

\* lines 117-125: 1/(1 + np.exp(-x)); -None raises TypeError
Sigmoid_forward(val, n) ==
    LET x == val[inbound_nodes[n][1]] IN
    IF x = None
    THEN [fault |-> "TypeError", value |-> val]
    ELSE [fault |-> "none", value |-> [val EXCEPT ![n] = <<"sigmoid", x>>]]

\* lines 28-32: Node.forward, which is what an Input object has: the forward of
\* lines 56-59 is a function local to Input.__init__, not a method
Node_forward(val, n) == [fault |-> "NotImplementedError", value |-> val]

\* n.forward()
Forward(val, n) ==
    CASE kind[n] = "Input"   -> Node_forward(val, n)
      [] kind[n] = "Add"     -> Add_forward(val, n)
      [] kind[n] = "Sigmoid" -> Sigmoid_forward(val, n)

\* lines 34-38: Node.backward (Input and Add define no backward)
Node_backward(grad, n) == [fault |-> "NotImplementedError", gradients |-> grad]

\* lines 127-137: line 132 reads n.like of the inbound node, an attribute no
\* node has, before anything is assigned
Sigmoid_backward(grad, n) == [fault |-> "AttributeError", gradients |-> grad]

\* n.backward()
Backward(grad, n) ==
    CASE kind[n] = "Sigmoid" -> Sigmoid_backward(grad, n)
      [] OTHER               -> Node_backward(grad, n)

\* lines 223-224 / 236-237: for n in sorted_nodes: n.forward(), from entry i on
RECURSIVE RunForward(_, _, _, _)
RunForward(val, list, i, log) ==
    IF i > Len(list) THEN [fault |-> "none", value |-> val, calls |-> log]
    ELSE LET r == Forward(val, list[i])
             l == Append(log, <<"forward", list[i]>>)
         IN IF r.fault # "none"
            THEN [fault |-> r.fault, value |-> r.value, calls |-> l]
            ELSE RunForward(r.value, list, i + 1, l)

\* lines 240-241: for n in graph[::-1]: n.backward(), from entry i of the reversed list on
RECURSIVE RunBackward(_, _, _, _)
RunBackward(grad, list, i, log) ==
    IF i > Len(list) THEN [fault |-> "none", gradients |-> grad, calls |-> log]
    ELSE LET r == Backward(grad, list[i])
             l == Append(log, <<"backward", list[i]>>)
         IN IF r.fault # "none"
            THEN [fault |-> r.fault, gradients |-> r.gradients, calls |-> l]
            ELSE RunBackward(r.gradients, list, i + 1, l)

----------------------------------------------------------------------------
(* The drivers                                                              *)

\* forward_pass(output_node, sorted_nodes) on the list topological_sort returned
ForwardPass ==
    /\ pc = "idle"
    /\ \E output_node \in Ids :
          LET r == RunForward(value, graph, 1, <<>>) IN
          /\ value' = r.value
          /\ Ended("forward_pass", <<output_node>>,
                   IF r.fault = "none" THEN <<r.value[output_node]>> ELSE <<>>,
                   r.fault, <<>>, r.calls)
    /\ feed_dict' = <<>>
    /\ UNCHANGED <<kind, inbound_nodes, outbound_nodes, gradients, pc, locals, graph>>

\* forward_and_backward(graph) on the list topological_sort returned
ForwardAndBackward ==
    /\ pc = "idle"
    /\ LET f == RunForward(value, graph, 1, <<>>)
           b == RunBackward(gradients, Reverse(graph), 1, f.calls)
       IN /\ value' = f.value
          /\ IF f.fault # "none"
             THEN /\ gradients' = gradients
                  /\ Ended("forward_and_backward", <<>>, <<>>, f.fault, <<>>, f.calls)
             ELSE /\ gradients' = b.gradients
                  /\ Ended("forward_and_backward", <<>>,
                           IF b.fault = "none" THEN <<None>> ELSE <<>>,
                           b.fault, <<>>, b.calls)
    /\ feed_dict' = <<>>
    /\ UNCHANGED <<kind, inbound_nodes, outbound_nodes, pc, locals, graph>>

\* the learning rate passed to sgd_update (an integer stands for the float)
learning_rate == 1

\* lines 254-259 from entry i of trainables on; t.gradients[t] raises KeyError
\* when t.gradients has no entry for t
RECURSIVE RunSgd(_, _, _, _)
RunSgd(val, trainables, rate, i) ==
    IF i > Len(trainables) THEN [fault |-> "none", value |-> val]
    ELSE LET t == trainables[i] IN
         IF t \notin DOMAIN gradients[t]
         THEN [fault |-> "KeyError", value |-> val]
         ELSE IF val[t] = None
         THEN [fault |-> "TypeError", value |-> val]
         ELSE RunSgd([val EXCEPT ![t] = Int_(val[t][2] - rate * gradients[t][t])],
                     trainables, rate, i + 1)

\* sgd_update(trainables, learning_rate)
SgdUpdate ==
    /\ pc = "idle"
    /\ \E ts \in SUBSET InputIds :
          LET trainables == Listed(ts)
              r == RunSgd(value, trainables, learning_rate, 1)
          IN
          /\ value' = r.value
          /\ Ended("sgd_update", trainables,
                   IF r.fault = "none" THEN <<None>> ELSE <<>>, r.fault, <<>>, <<>>)
    /\ feed_dict' = <<>>
    /\ UNCHANGED <<kind, inbound_nodes, outbound_nodes, gradients, pc, locals, graph>>

\* n.forward() and n.forward(v) called on an Input object n: both resolve to
\* Node.forward(self), which takes no value
InputForward ==
    /\ pc = "idle"
    /\ \E n \in InputIds :
          \/ Ended("Input.forward", <<n>>, <<>>, Node_forward(value, n).fault, <<>>,
                   << <<"forward", n>> >>)
          \/ \E v \in FedValues :
                Ended("Input.forward", <<n, v>>, <<>>, "TypeError", <<>>, <<>>)
    /\ feed_dict' = <<>>
    /\ UNCHANGED <<objs, pc, locals, graph>>

----------------------------------------------------------------------------

Next ==
    \/ Input_init
    \/ Add_init
    \/ Mul_init
    \/ Sigmoid_init
    \/ TopologicalSort
    \/ DiscoverStep
    \/ KahnStart
    \/ KahnStep
    \/ Return
    \/ ForwardPass
    \/ ForwardAndBackward
    \/ SgdUpdate
    \/ InputForward

Spec == Init /\ [][Next]_vars

\* construction and scheduling alone
SortNext ==
    \/ Input_init
    \/ Add_init
    \/ Sigmoid_init
    \/ TopologicalSort
    \/ DiscoverStep
    \/ KahnStart
    \/ KahnStep
    \/ Return

SortSpec == Init /\ [][SortNext]_vars

RECURSIVE TotalLen(_, _)
TotalLen(lists, i) == IF i > Len(lists) THEN 0 ELSE Len(lists[i]) + TotalLen(lists, i + 1)

\* the nodes reachable from `set` along outbound_nodes, `set` included
RECURSIVE Reach(_)
Reach(set) ==
    LET more == set \cup UNION {Range(outbound_nodes[n]) : n \in set}
    IN IF more = set THEN set ELSE Reach(more)

\* a caller appends a back-edge by hand, a.outbound_nodes.append(b) with b an
\* ancestor of a or a itself; done once, to a graph whose edges all came from
\* constructors
AddBackEdge ==
    /\ pc = "idle"
    /\ TotalLen(outbound_nodes, 1) = TotalLen(inbound_nodes, 1)
    /\ \E a \in Ids : \E b \in Ids :
          /\ a \in Reach({b})
          /\ outbound_nodes' = [outbound_nodes EXCEPT ![a] = Append(@, b)]
          /\ Ended("append", <<a, b>>, <<None>>, "none", <<>>, <<>>)
    /\ feed_dict' = <<>>
    /\ graph' = <<>>
    /\ UNCHANGED <<kind, inbound_nodes, value, gradients, pc, locals>>

CycNext ==
    \/ Input_init
    \/ Add_init
    \/ Sigmoid_init
    \/ AddBackEdge
    \/ TopologicalSort
    \/ DiscoverStep
    \/ KahnStart
    \/ KahnStep
    \/ Return

\* a call of topological_sort, once started, keeps executing
CycSpec ==
    /\ Init
    /\ [][CycNext]_vars
    /\ WF_vars(DiscoverStep)
    /\ WF_vars(KahnStart)
    /\ WF_vars(KahnStep)
    /\ WF_vars(Return)

----------------------------------------------------------------------------
(* Vocabulary of the properties                                             *)

Keys == DOMAIN feed_dict
Edge(a, b) == b \in Range(outbound_nodes[a])
Index(l, n) == CHOOSE i \in 1..Len(l) : l[i] = n
SortEnded == pc = "idle" /\ lastOp = "topological_sort"

\* l lists exactly the nodes of R, once each, every edge inside R pointing forward
IsTopologicalOrder(l, R) ==
    /\ Range(l) = R
    /\ Len(l) = Cardinality(R)
    /\ \A a \in R : \A b \in R : Edge(a, b) => Index(l, a) < Index(l, b)

\* the nodes of a cycle that can be reached from the feed keys
OnCycle == {n \in Reach(Keys) : n \in Reach(Range(outbound_nodes[n]))}
CycleReachable == OnCycle # {}

\* a node reachable from the feed keys that occurs twice in an outbound list
Duplicated(a, c) == Count(outbound_nodes[a], c) >= 2
DuplicateReachable == \E a \in Reach(Keys) : \E c \in Ids : Duplicated(a, c)

\* the memory bound is never what stops the scheduler on an acyclic graph
AcyclicFitsMemory == fault # "MemoryError"

----------------------------------------------------------------------------
\* C1: for every acyclic graph and every feed whose keys are Input nodes,
\* topological_sort returns a list holding each node reachable from the feed
\* keys exactly once and no other node, with A before B for every edge A->B.
C1_SortReturnsTopologicalOrder ==
    SortEnded =>
        /\ fault = "none"
        /\ ret # <<>>
        /\ IsTopologicalOrder(ret[1], Reach(Keys))

\* C2: constructing Add(x, y, ..) and Mul(x, y, ..) over fed Input nodes raises
\* no fault, and forward_pass on the sorted list returns the sum of the fed
\* values for the Add node (the product for the Mul node).
C2_ForwardPassAddsAndMultiplies ==
    /\ lastOp = "Mul" => fault = "none"
    /\ \A f \in Ids :
         ( /\ lastOp = "forward_pass"
           /\ args = <<f>>
           /\ kind[f] = "Add"
           /\ f \in Range(graph)
           /\ \A i \in 1..Len(inbound_nodes[f]) :
                 /\ kind[inbound_nodes[f][i]] = "Input"
                 /\ inbound_nodes[f][i] \in Range(graph) )
         => /\ fault = "none"
            /\ ret = << Int_(SumInts([i \in 1..Len(inbound_nodes[f]) |->
                                         value[inbound_nodes[f][i]]], 1)) >>

\* C3: forward_and_backward calls forward() on every node of the list once, in
\* list order, and then backward() on every node once, in reverse list order.
C3_ForwardThenBackwardInReverse ==
    lastOp = "forward_and_backward" =>
        calls = [i \in 1..Len(graph) |-> <<"forward", graph[i]>>]
                \o [i \in 1..Len(graph) |-> <<"backward", Reverse(graph)[i]>>]

\* C4: when one Input x feeds two Sigmoid nodes s1 and s2, after
\* forward_and_backward on the sorted graph the gradient recorded for x is the
\* sum of the contributions of s1 and s2.
C4_FanOutGradientsAccumulate ==
    \A x \in InputIds : \A s1 \in Ids : \A s2 \in Ids :
        ( /\ lastOp = "forward_and_backward"
          /\ s1 # s2
          /\ kind[s1] = "Sigmoid" /\ inbound_nodes[s1] = <<x>>
          /\ kind[s2] = "Sigmoid" /\ inbound_nodes[s2] = <<x>>
          /\ {x, s1, s2} \subseteq Range(graph) )
        => /\ fault = "none"
           /\ x \in DOMAIN gradients[x]
           /\ x \in DOMAIN gradients[s1]
           /\ x \in DOMAIN gradients[s2]
           /\ gradients[x][x] = gradients[s1][x] + gradients[s2][x]

\* C5: forward() on an Input node with no value supplied completes without a
\* fault and leaves the node's value unchanged, so the value topological_sort
\* assigned is still there after forward_pass has visited the node; with a value
\* supplied, forward() overwrites the node's value with it.
C5_InputForwardKeepsOrOverwrites ==
    [][ /\ InputForward =>
            /\ fault' = "none"
            /\ value' = IF Len(args') = 2
                        THEN [value EXCEPT ![args'[1]] = args'[2]]
                        ELSE value
        /\ ForwardPass =>
            \A i \in 1..Len(calls') :
                kind[calls'[i][2]] = "Input" =>
                    /\ i < Len(calls') \/ fault' = "none"
                    /\ value'[calls'[i][2]] = value[calls'[i][2]]
      ]_vars

\* C6: when forward_and_backward has just run on a sorted graph holding every
\* trainable as a fed Input node with a consumer, sgd_update finds gradients[t]
\* on each trainable t, raises no fault, sets t's value to its old value minus
\* learning_rate times that entry, and leaves every other node's value alone.
C6_SgdUpdateDescends ==
    [][ ( /\ SgdUpdate
          /\ lastOp = "forward_and_backward"
          /\ args' # <<>>
          /\ \A i \in 1..Len(args') :
                /\ args'[i] \in Range(graph)
                /\ value[args'[i]] # None
                /\ outbound_nodes[args'[i]] # <<>> )
        => /\ fault' = "none"
           /\ \A n \in Ids :
                IF n \in Range(args')
                THEN /\ n \in DOMAIN gradients[n]
                     /\ value'[n] = Int_(value[n][2] - learning_rate * gradients[n][n])
                ELSE value'[n] = value[n]
      ]_vars

C8_UnfedInputIsSkipped ==
    \A u \in InputIds \ Keys : \A c \in Ids :
        (SortEnded /\ u \in Range(inbound_nodes[c])) =>
            /\ fault = "none"
            /\ ret # <<>>
            /\ u \notin Range(ret[1])
            /\ value[u] = None
            /\ LET placed == Range(inbound_nodes[c]) \cap Reach(Keys) IN
               IF placed = {}
               THEN c \notin Range(ret[1])
               ELSE /\ c \in Range(ret[1])
                    /\ \A a \in placed : Index(ret[1], a) < Index(ret[1], c)

\* C9: in every state, B occurs in A.outbound_nodes iff A occurs in
\* B.inbound_nodes; no step changes the inbound_nodes of an existing node, and
\* the only change a step makes to the outbound_nodes of an existing node is
\* the construction of a new node B appending B, once per inbound position.
C9_EdgesMirrorAndAreImmutable ==
    /\ [](\A a \in Ids : \A b \in Ids :
            b \in Range(outbound_nodes[a]) <=> a \in Range(inbound_nodes[b]))
    /\ [][ \A a \in Ids :
            /\ inbound_nodes'[a] = inbound_nodes[a]
            /\ \/ outbound_nodes'[a] = outbound_nodes[a]
               \/ /\ Len(kind') = Len(kind) + 1
                  /\ lastOp' \in {"Input", "Add", "Sigmoid"}
                  /\ LET b == Len(kind') IN
                     outbound_nodes'[a] =
                         outbound_nodes[a] \o Repeat(b, Count(inbound_nodes'[b], a))
         ]_vars

\* a scheduling pass, a forward pass, a forward/backward pass and an update have
\* all ended on a graph that has an edge
C9_Witness ==
    /\ lastOp \in {"forward_pass", "forward_and_backward", "sgd_update"}
    /\ graph # <<>>
    /\ \E a \in Ids : \E b \in Ids : Edge(a, b) /\ {a, b} \subseteq Range(graph)

\* C10 as claimed: when C was constructed with A at two inbound positions and A
\* is reachable from the feed keys, topological_sort faults when it retires the
\* edge A->C the second time, and returns no order.
C10_FaultsAtThatDuplicate ==
    \A a \in Reach(Keys) : \A c \in Ids :
        (SortEnded /\ Duplicated(a, c)) =>
            /\ fault = "KeyError"
            /\ faultAt = <<a, c>>
            /\ ret = <<>>

\* C10, amended: a node C constructed with A at two inbound positions occurs
\* twice in A.outbound_nodes while G[A]['out'] holds it once; a topological_sort
\* on a feed from which such an A is reachable ends with KeyError, raised when
\* the Kahn loop retires for the second time a duplicated edge - A->C, or
\* another duplicated edge it reaches earlier - and returns no order.
C10_FaultsAtSomeDuplicate ==
    /\ \A a \in Ids : \A c \in Ids :
         Count(outbound_nodes[a], c) = Count(inbound_nodes[c], a)
    /\ (pc = "kahn" /\ DuplicateReachable) => Range(L) # Reach(Keys)
    /\ (SortEnded /\ DuplicateReachable) =>
         /\ fault = "KeyError"
         /\ ret = <<>>
         /\ graph = <<>>
         /\ Len(faultAt) = 2
         /\ faultAt[1] \in Reach(Keys)
         /\ Duplicated(faultAt[1], faultAt[2])

\* a pass faulted at one duplicated edge while another duplicated edge was
\* reachable too
C10_Witness ==
    /\ SortEnded
    /\ fault = "KeyError"
    /\ \E a \in Reach(Keys) : \E c \in Ids : Duplicated(a, c) /\ faultAt # <<a, c>>

====
